---- MODULE Spec2Model ----
(***************************************************************************)
(* Model of netstat_monitor.c: the /proc/net/dev reader and line parser,   *)
(* the delta engine, and the poll loop of main() with its asynchronous     *)
(* signal handler.                                                         *)
(*                                                                         *)
(* uint64_t values are sequences of four 16-bit limbs, least significant   *)
(* first, so that 64-bit arithmetic keeps its exact width.  Text is a      *)
(* sequence of one-character strings.                                      *)
(***************************************************************************)
EXTENDS Integers, Sequences, FiniteSets, TLC

\* ------------------------------------------------------------------------
\* Bounds of the model
\* ------------------------------------------------------------------------
MaxAttempts == 3        \* read_net_stats calls made inside the loop
MaxCount == 2           \* largest -n value tried
MaxInterval == 2        \* largest -i value tried

\* ------------------------------------------------------------------------
\* Program constants
\* ------------------------------------------------------------------------
MAX_IFACE_LEN == 64
HEADER_INTERVAL == 20
EXIT_SUCCESS == 0
EXIT_FAILURE == 1
LimbBase == 65536       \* 2^16: one limb of a uint64_t
NTOKENS == 16           \* unsigned long long values[16]

\* ------------------------------------------------------------------------
\* uint64_t arithmetic (modulo 2^64) on limbs
\* ------------------------------------------------------------------------
U64Zero == <<0, 0, 0, 0>>
U64Max == <<65535, 65535, 65535, 65535>>
WRAP32 == <<0, 0, 1, 0>>        \* UINT64_C(0x100000000)

\* a + b with the carry out of bit 63: [val, carry]
U64AddC(a, b) ==
    LET t1 == a[1] + b[1]
        t2 == a[2] + b[2] + (t1 \div LimbBase)
        t3 == a[3] + b[3] + (t2 \div LimbBase)
        t4 == a[4] + b[4] + (t3 \div LimbBase)
    IN  [val |-> <<t1 % LimbBase, t2 % LimbBase, t3 % LimbBase, t4 % LimbBase>>,
         carry |-> t4 \div LimbBase]

U64Add(a, b) == U64AddC(a, b).val

\* a - b modulo 2^64
U64Sub(a, b) ==
    LET t1 == a[1] - b[1]
        b1 == IF t1 < 0 THEN 1 ELSE 0
        t2 == a[2] - b[2] - b1
        b2 == IF t2 < 0 THEN 1 ELSE 0
        t3 == a[3] - b[3] - b2
        b3 == IF t3 < 0 THEN 1 ELSE 0
        t4 == a[4] - b[4] - b3
    IN  <<t1 % LimbBase, t2 % LimbBase, t3 % LimbBase, t4 % LimbBase>>

U64Less(a, b) ==
    \/ a[4] < b[4]
    \/ a[4] = b[4] /\ a[3] < b[3]
    \/ a[4] = b[4] /\ a[3] = b[3] /\ a[2] < b[2]
    \/ a[4] = b[4] /\ a[3] = b[3] /\ a[2] = b[2] /\ a[1] < b[1]

U64Geq(a, b) == ~U64Less(a, b)

\* a * 10 + d with overflow detection, the accumulation step of strtoull
U64MulAdd10(a, d) ==
    LET t1 == a[1] * 10 + d
        t2 == a[2] * 10 + (t1 \div LimbBase)
        t3 == a[3] * 10 + (t2 \div LimbBase)
        t4 == a[4] * 10 + (t3 \div LimbBase)
    IN  [val |-> <<t1 % LimbBase, t2 % LimbBase, t3 % LimbBase, t4 % LimbBase>>,
         overflow |-> t4 \div LimbBase > 0]

\* ------------------------------------------------------------------------
\* Delta engine
\* ------------------------------------------------------------------------
\* safe_delta with the operands of its first subtraction exchanged
safe_delta_swapped(current, previous) ==
    IF U64Geq(current, previous)
    THEN U64Sub(previous, current)
    ELSE U64Add(U64Sub(WRAP32, previous), current)

\* safe_delta without the 32-bit policy: a plain 64-bit subtraction
safe_delta_wrap64(current, previous) ==
    IF U64Geq(current, previous)
    THEN U64Sub(current, previous)
    ELSE U64Sub(current, previous)

\* safe_delta(current, previous), lines 105-111
safe_delta(current, previous) ==
    IF U64Geq(current, previous)
    THEN U64Sub(current, previous)
    ELSE U64Add(U64Sub(WRAP32, previous), current)

\* ------------------------------------------------------------------------
\* Text helpers
\* ------------------------------------------------------------------------
DigitVal == [c \in {"0", "1", "2", "3", "4", "5", "6", "7", "8", "9"} |->
               CASE c = "0" -> 0 [] c = "1" -> 1 [] c = "2" -> 2 [] c = "3" -> 3
                 [] c = "4" -> 4 [] c = "5" -> 5 [] c = "6" -> 6 [] c = "7" -> 7
                 [] c = "8" -> 8 [] c = "9" -> 9]

IsDigit(c) == c \in DOMAIN DigitVal

\* strchr(s, ch): index of the first ch in s, 0 when absent
RECURSIVE strchr_from(_, _, _)
strchr_from(s, ch, i) ==
    IF i > Len(s) THEN 0
    ELSE IF s[i] = ch THEN i
    ELSE strchr_from(s, ch, i + 1)

strchr(s, ch) == strchr_from(s, ch, 1)

\* the while loop skipping leading ' ' and '\t'
RECURSIVE SkipLeading(_)
SkipLeading(s) ==
    IF Len(s) > 0 /\ (s[1] = " " \/ s[1] = "\t") THEN SkipLeading(Tail(s)) ELSE s

\* the while loop cutting trailing ' ' and '\t'
RECURSIVE CutTrailing(_)
CutTrailing(s) ==
    IF Len(s) > 0 /\ (s[Len(s)] = " " \/ s[Len(s)] = "\t")
    THEN CutTrailing(SubSeq(s, 1, Len(s) - 1))
    ELSE s

\* strncpy(dst, src, n - 1); dst[n - 1] = '\0'
strncpy_term(src, n) == IF Len(src) > n - 1 THEN SubSeq(src, 1, n - 1) ELSE src

\* the label of a row: text before the colon, trimmed, cut to the buffer
TrimLabel(left) == CutTrailing(strncpy_term(SkipLeading(left), MAX_IFACE_LEN))

IsDelim(c) == c = " " \/ c = "\t" \/ c = "\n" \/ c = "\r"

\* first position at or after i holding a delimiter (or not holding one),
\* Len(s) + 1 when there is none
RECURSIVE ScanTo(_, _, _)
ScanTo(s, i, delim) ==
    IF i > Len(s) \/ IsDelim(s[i]) = delim THEN i ELSE ScanTo(s, i + 1, delim)

\* a token starting at start and ending before end, and the save position
TokenSpan(s, start, end) == [token |-> SubSeq(s, start, end - 1), save |-> end + 1]

\* the token starting at start (<<>> for NULL when the text is exhausted)
TokenAt(s, start) ==
    IF start > Len(s) THEN [token |-> <<>>, save |-> start]
    ELSE TokenSpan(s, start, ScanTo(s, start, TRUE))

\* strtok_r(.., " \t\n\r", &saveptr) resuming at position pos of s
strtok_r(s, pos) == TokenAt(s, ScanTo(s, pos, FALSE))

\* the digit run of strtoull starting at position i: [val, overflow, end]
RECURSIVE DigitRun(_, _, _, _)
DigitRun(tok, i, acc, ovf) ==
    IF i > Len(tok) \/ ~IsDigit(tok[i])
    THEN [val |-> acc, overflow |-> ovf, end |-> i]
    ELSE LET m == U64MulAdd10(acc, DigitVal[tok[i]])
         IN  IF m.overflow THEN DigitRun(tok, i + 1, m.val, TRUE)
             ELSE DigitRun(tok, i + 1, m.val, ovf)

\* what strtoull reports for token tok whose digits start at first and ran
\* as run: the value, whether errno was set (ERANGE), whether *endptr == '\0'
strtoull_result(tok, first, run) ==
    [value |-> IF run.end = first THEN U64Zero
               ELSE IF run.overflow THEN U64Max
               ELSE IF tok[1] = "-" THEN U64Sub(U64Zero, run.val)
               ELSE run.val,
     erange |-> run.end > first /\ run.overflow,
     atend |-> run.end > first /\ run.end > Len(tok)]

\* position of the first digit: after an optional sign
FirstDigit(tok) == IF Len(tok) > 0 /\ (tok[1] = "-" \/ tok[1] = "+") THEN 2 ELSE 1

\* strtoull(token, &endptr, 10)
strtoull(tok) ==
    strtoull_result(tok, FirstDigit(tok), DigitRun(tok, FirstDigit(tok), U64Zero, FALSE))

\* ------------------------------------------------------------------------
\* Snapshots (net_stats_t)
\* ------------------------------------------------------------------------
TimeZero == [tv_sec |-> 0, tv_nsec |-> 0]

\* net_stats_t x = {0}
ZeroStats ==
    [interface |-> <<>>,
     rx_bytes |-> U64Zero, rx_packets |-> U64Zero,
     rx_errors |-> U64Zero, rx_drops |-> U64Zero,
     tx_bytes |-> U64Zero, tx_packets |-> U64Zero,
     tx_errors |-> U64Zero, tx_drops |-> U64Zero,
     timestamp |-> TimeZero,
     valid |-> FALSE]

\* ------------------------------------------------------------------------
\* Line parser
\* ------------------------------------------------------------------------
\* errno != 0 || *endptr != '\0' for the strtoull result r
BadNumber(r) == r.erange \/ ~r.atend

\* the while (token && token_count < 16) loop over the text s after the
\* colon, token being the pending strtok_r result: [ok, count, values]
RECURSIVE TokenLoop(_, _, _, _)
TokenLoop(s, token, token_count, values) ==
    IF Len(token.token) > 0 /\ token_count < NTOKENS
    THEN IF BadNumber(strtoull(token.token))
         THEN [ok |-> FALSE, count |-> token_count, values |-> values]
         ELSE TokenLoop(s, strtok_r(s, token.save), token_count + 1,
                        Append(values, strtoull(token.token).value))
    ELSE [ok |-> TRUE, count |-> token_count, values |-> values]

\* a FillStats that takes the transmit counters from columns 4..7
FillStats_shifted(stats, iface, values) ==
    [stats EXCEPT !.interface = strncpy_term(iface, MAX_IFACE_LEN),
                  !.rx_bytes = values[1], !.rx_packets = values[2],
                  !.rx_errors = values[3], !.rx_drops = values[4],
                  !.tx_bytes = values[5], !.tx_packets = values[6],
                  !.tx_errors = values[7], !.tx_drops = values[8],
                  !.valid = TRUE]

\* the fields assigned at lines 223-234
FillStats(stats, iface, values) ==
    [stats EXCEPT !.interface = strncpy_term(iface, MAX_IFACE_LEN),
                  !.rx_bytes = values[1], !.rx_packets = values[2],
                  !.rx_errors = values[3], !.rx_drops = values[4],
                  !.tx_bytes = values[9], !.tx_packets = values[10],
                  !.tx_errors = values[11], !.tx_drops = values[12],
                  !.valid = TRUE]

\* lines 219-221: the verdict on a finished token loop
TokenVerdict(loop) ==
    [ok |-> loop.ok /\ loop.count >= NTOKENS, values |-> loop.values]

\* lines 183-221, colon being the position of the first ':' in line
ParseFromColon(line, iface, colon) ==
    IF colon = 0 THEN [ok |-> FALSE, values |-> <<>>]
    ELSE IF TrimLabel(SubSeq(line, 1, colon - 1)) # iface
    THEN [ok |-> FALSE, values |-> <<>>]
    ELSE TokenVerdict(TokenLoop(SubSeq(line, colon + 1, Len(line)),
                                strtok_r(SubSeq(line, colon + 1, Len(line)), 1),
                                0, <<>>))

\* lines 171-221 of parse_interface_line, everything before stats is
\* touched: whether the line is accepted, and the values[] parsed so far
ParseRow(line, iface) == ParseFromColon(line, iface, strchr(line, ":"))

\* ------------------------------------------------------------------------
\* Counter sources the environment can present
\* ------------------------------------------------------------------------
\* a counter source is either unopenable or a sequence of lines
\* (recurring: met at any read; the other contents are met by the initial
\* sample only, which keeps the loop's branching bounded)
Unopenable == [open |-> FALSE, lines |-> <<>>, recurring |-> TRUE]
TextFile(lines) == [open |-> TRUE, lines |-> lines, recurring |-> TRUE]
BoundaryFile(lines) == [open |-> TRUE, lines |-> lines, recurring |-> FALSE]

eth0 == <<"e", "t", "h", "0">>
wlan0 == <<"w", "l", "a", "n", "0">>
lo == <<"l", "o">>

T0 == <<"0">>
T7 == <<"7">>
T10 == <<"1", "0">>
T1000 == <<"1", "0", "0", "0">>
T3048 == <<"3", "0", "4", "8">>
T4294967290 == <<"4", "2", "9", "4", "9", "6", "7", "2", "9", "0">>
T8589934597 == <<"8", "5", "8", "9", "9", "3", "4", "5", "9", "7">>
TMax == <<"1", "8", "4", "4", "6", "7", "4", "4", "0", "7", "3", "7", "0", "9", "5", "5", "1", "6", "1", "5">>
TOver == <<"1", "8", "4", "4", "6", "7", "4", "4", "0", "7", "3", "7", "0", "9", "5", "5", "1", "6", "1", "6">>
TBad == <<"1", "2", "x">>
TMinus1 == <<"-", "1">>
TPlus7 == <<"+", "7">>

Sp(token) == <<" ">> \o token

\* one row "  <label>: v0 v1 ... v(n-1)\n" of n = 15, 16 or 17 columns
Row(label, t) ==
    <<" ", " ">> \o label \o <<":">>
    \o Sp(t[1]) \o Sp(t[2]) \o Sp(t[3]) \o Sp(t[4]) \o Sp(t[5]) \o Sp(t[6])
    \o Sp(t[7]) \o Sp(t[8]) \o Sp(t[9]) \o Sp(t[10]) \o Sp(t[11]) \o Sp(t[12])
    \o Sp(t[13]) \o Sp(t[14]) \o Sp(t[15])
    \o (IF Len(t) >= 16 THEN Sp(t[16]) ELSE <<>>)
    \o (IF Len(t) >= 17 THEN Sp(t[17]) ELSE <<>>)
    \o <<"\n">>

\* sixteen columns with the given rx bytes/packets and tx bytes/packets
Cols(rxb, rxp, txb, txp) ==
    <<rxb, rxp, T0, T0, T0, T0, T0, T0, txb, txp, T0, T0, T0, T0, T0, T0>>

Header1 == <<"I", "n", "t", "e", "r", "-", "|", " ", " ", " ", "R", "e", "c", "e", "i", "v", "e", " ", " ", "|", " ", " ", "T", "r", "a", "n", "s", "m", "i", "t", "\n">>
Header2 == <<" ", "f", "a", "c", "e", " ", "|", "b", "y", "t", "e", "s", " ", "p", "a", "c", "k", "e", "t", "s", "|", "b", "y", "t", "e", "s", " ", "p", "a", "c", "k", "e", "t", "s", "\n">>

ColsA == Cols(T1000, T10, T4294967290, T8589934597)
ColsB == Cols(T3048, T7, T10, T7)
ColsC == Cols(T7, T0, T7, T7)

RowLo == Row(lo, Cols(T7, T7, T7, T7))
RowLoBad == Row(lo, [ColsB EXCEPT ![1] = TBad])
RowA == Row(eth0, ColsA)
RowB == Row(eth0, ColsB)
RowC == Row(eth0, ColsC)
RowBad == Row(eth0, [ColsA EXCEPT ![3] = TBad])
Row15 == Row(eth0, SubSeq(ColsA, 1, 15))
Row17 == Row(eth0, Append(ColsA, T7))
RowOver == Row(eth0, [ColsA EXCEPT ![1] = TOver])
RowMax == Row(eth0, Cols(TMax, T7, TMax, T0))
RowSigned == Row(eth0, [ColsA EXCEPT ![2] = TMinus1, ![10] = TPlus7])
RowPadded == Row(eth0 \o <<" ", "\t">>, ColsB)
RowLonger == Row(eth0 \o <<"1">>, ColsA)

\* the contents /proc/net/dev can have at an fopen; the environment picks
\* one, by index, at every read
Sources ==
    << Unopenable,
       TextFile(<<Header1, Header2, RowLo, RowA>>),
       TextFile(<<Header1, Header2, RowLoBad, RowB>>),
       TextFile(<<Header1, Header2, RowLo>>),
       TextFile(<<Header1, Header2, RowBad, RowB>>),
       TextFile(<<Header1, Header2, Row15>>),
       TextFile(<<Header1, Header2, Row17>>),
       TextFile(<<Header1, Header2, RowC>>),
       BoundaryFile(<<Header1, Header2, RowOver, RowMax>>),
       BoundaryFile(<<Header1, Header2, RowSigned>>),
       BoundaryFile(<<Header1, Header2, RowLonger, RowPadded>>),
       BoundaryFile(<<Header1, RowA, RowLo, RowB>>) >>

SourceIds == 1..Len(Sources)

\* the contents a read inside the loop can meet
PollSourceIds == {i \in SourceIds : Sources[i].recurring}

Interfaces == {eth0, wlan0}

InterfaceList == <<eth0, wlan0>>
IfcId(iface) == CHOOSE k \in 1..Len(InterfaceList) : InterfaceList[k] = iface

\* ParseRow of line n of source i for the k-th interface, computed once
ParsedLine ==
    [i \in SourceIds |-> [n \in 1..Len(Sources[i].lines) |->
        [k \in 1..Len(InterfaceList) |->
            ParseRow(Sources[i].lines[n], InterfaceList[k])]]]

\* a parse_interface_line that stores rx_bytes as soon as it is parsed
parse_interface_line_early_write(parsed, iface, stats) ==
    IF parsed.ok THEN [ret |-> TRUE, stats |-> FillStats(stats, iface, parsed.values)]
    ELSE [ret |-> FALSE,
          stats |-> IF Len(parsed.values) > 0
                    THEN [stats EXCEPT !.rx_bytes = parsed.values[1]]
                    ELSE stats]

\* parse_interface_line(line, interface, stats), parsed being ParseRow of
\* the line: [ret, stats]; stats is written only once the row is accepted
parse_interface_line(parsed, iface, stats) ==
    IF parsed.ok THEN [ret |-> TRUE, stats |-> FillStats(stats, iface, parsed.values)]
    ELSE [ret |-> FALSE, stats |-> stats]

\* ------------------------------------------------------------------------
\* Counter source reader
\* ------------------------------------------------------------------------
\* lines 263-267: the timestamp of a found row; now is the CLOCK_MONOTONIC
\* reading, clock_ok whether clock_gettime succeeds
Stamp(stats, now, clock_ok) ==
    [stats EXCEPT !.timestamp = IF clock_ok THEN now ELSE TimeZero]

\* a scan that gives up at the first row no interface name accepts
RECURSIVE ScanLines_hard_error(_, _, _, _, _, _)
ScanLines_hard_error(i, n, iface, stats, now, clock_ok) ==
    IF n > Len(Sources[i].lines) THEN [found |-> FALSE, stats |-> stats]
    ELSE IF n <= 2 THEN ScanLines_hard_error(i, n + 1, iface, stats, now, clock_ok)
    ELSE IF \A k \in 1..Len(InterfaceList) : ~ParsedLine[i][n][k].ok
    THEN [found |-> FALSE, stats |-> stats]
    ELSE IF ParsedLine[i][n][IfcId(iface)].ok
    THEN [found |-> TRUE,
          stats |-> Stamp(FillStats(stats, iface, ParsedLine[i][n][IfcId(iface)].values),
                          now, clock_ok)]
    ELSE ScanLines_hard_error(i, n + 1, iface, stats, now, clock_ok)

\* the while (fgets(...)) loop of read_net_stats over source i from line
\* number n on: [found, stats]
RECURSIVE ScanLines(_, _, _, _, _, _)
ScanLines(i, n, iface, stats, now, clock_ok) ==
    IF n > Len(Sources[i].lines) THEN [found |-> FALSE, stats |-> stats]
    ELSE IF n <= 2 THEN ScanLines(i, n + 1, iface, stats, now, clock_ok)
    ELSE IF parse_interface_line(ParsedLine[i][n][IfcId(iface)], iface, stats).ret
    THEN [found |-> TRUE,
          stats |-> Stamp(parse_interface_line(ParsedLine[i][n][IfcId(iface)],
                                               iface, stats).stats,
                          now, clock_ok)]
    ELSE ScanLines(i, n + 1, iface,
                   parse_interface_line(ParsedLine[i][n][IfcId(iface)],
                                        iface, stats).stats,
                   now, clock_ok)

\* read_net_stats(interface, stats) when fopen meets source i
read_net_stats(i, iface, stats, now, clock_ok) ==
    IF ~Sources[i].open THEN [found |-> FALSE, stats |-> stats]
    ELSE ScanLines(i, 1, iface, stats, now, clock_ok)

\* ------------------------------------------------------------------------
\* Renderer input
\* ------------------------------------------------------------------------
\* timespec_diff(start, end), kept as the two differences it adds up
timespec_diff(start, end) ==
    [sec |-> end.tv_sec - start.tv_sec, nsec |-> end.tv_nsec - start.tv_nsec]

ElapsedZero == [sec |-> 0, nsec |-> 0]

\* elapsed_seconds <= 0.0 (|nsec| is below one second)
NonPositive(elapsed) == elapsed.sec < 0 \/ (elapsed.sec = 0 /\ elapsed.nsec <= 0)

\* calculate_rate(delta, elapsed_seconds): the quotient, kept exact
calculate_rate(delta, elapsed) ==
    IF NonPositive(elapsed) THEN [num |-> U64Zero, den |-> ElapsedZero]
    ELSE [num |-> delta, den |-> elapsed]

\* the initial content "-" of the four rate buffers (line 300-301)
Unavailable == [text |-> "-", rate |-> <<>>]

\* format_rate(rate, buffer, bufsize): a number with a unit; the digits are
\* not modelled, the rate formatted is kept
format_rate(rate) == [text |-> "number unit", rate |-> <<rate>>]

\* snprintf(buffer, size, "%.0f", rate) of the two packet rates
snprintf_rate(rate) == [text |-> "number", rate |-> <<rate>>]

\* a pointer to a net_stats_t, possibly NULL
NullPtr == [null |-> TRUE, ref |-> ZeroStats]
PtrTo(stats) == [null |-> FALSE, ref |-> stats]

\* a print_stats that never tests its previous argument
HasPrevious_always(previous) == TRUE

\* previous && previous->valid
HasPrevious(previous) == ~previous.null /\ previous.ref.valid

\* the body of if (previous && previous->valid): the four deltas, locals of
\* that block, and the four buffers it fills
RatesBlock(current, previous, elapsed, rx_delta, tx_delta, rx_pkt_delta, tx_pkt_delta) ==
    [current |-> current,
     previous |-> previous,
     elapsed |-> elapsed,
     rx_delta |-> <<rx_delta>>,
     tx_delta |-> <<tx_delta>>,
     rx_pkt_delta |-> <<rx_pkt_delta>>,
     tx_pkt_delta |-> <<tx_pkt_delta>>,
     rx_rate_str |-> format_rate(calculate_rate(rx_delta, elapsed)),
     tx_rate_str |-> format_rate(calculate_rate(tx_delta, elapsed)),
     rx_pkt_rate_str |-> snprintf_rate(calculate_rate(rx_pkt_delta, elapsed)),
     tx_pkt_rate_str |-> snprintf_rate(calculate_rate(tx_pkt_delta, elapsed))]

\* print_stats(current, previous, elapsed): what the printed row is made
\* of; a delta that was never computed is the empty sequence
print_stats(current, previous, elapsed) ==
    IF HasPrevious(previous)
    THEN RatesBlock(current, previous, elapsed,
                    safe_delta(current.rx_bytes, previous.ref.rx_bytes),
                    safe_delta(current.tx_bytes, previous.ref.tx_bytes),
                    safe_delta(current.rx_packets, previous.ref.rx_packets),
                    safe_delta(current.tx_packets, previous.ref.tx_packets))
    ELSE [current |-> current,
          previous |-> previous,
          elapsed |-> elapsed,
          rx_delta |-> <<>>,
          tx_delta |-> <<>>,
          rx_pkt_delta |-> <<>>,
          tx_pkt_delta |-> <<>>,
          rx_rate_str |-> Unavailable,
          tx_rate_str |-> Unavailable,
          rx_pkt_rate_str |-> Unavailable,
          tx_pkt_rate_str |-> Unavailable]

NoRender == [current |-> ZeroStats]

\* the labels listed after "Available interfaces:"
RECURSIVE ListLabels(_, _)
ListLabels(lines, n) ==
    IF n > Len(lines) THEN <<>>
    ELSE IF n <= 2 THEN ListLabels(lines, n + 1)
    ELSE LET colon == strchr(lines[n], ":")
         IN  IF colon = 0 THEN ListLabels(lines, n + 1)
             ELSE <<TrimLabel(SubSeq(lines[n], 1, colon - 1))>> \o ListLabels(lines, n + 1)

\* ------------------------------------------------------------------------
\* State of the process
\* ------------------------------------------------------------------------
VARIABLES
    pc,                 \* position of main()
    keep_running,       \* the sig_atomic_t flag
    interface,          \* argv[1]
    interval,           \* -i
    max_iterations,     \* -n, -1 when absent
    current_stats,
    previous_stats,
    iteration,
    lines_since_header,
    exit_status,        \* -1 while running
    clock,              \* CLOCK_MONOTONIC, whole seconds
    sleep_left,         \* seconds the sleep() in progress still has to run
    out,                \* what was printed: counts and the last row
    hist                \* bookkeeping for the properties, never read by the code

vars == <<pc, keep_running, interface, interval, max_iterations,
          current_stats, previous_stats, iteration, lines_since_header,
          exit_status, clock, sleep_left, out, hist>>

Now == [tv_sec |-> clock, tv_nsec |-> 0]

Init ==
    /\ pc = "start"
    /\ keep_running = 1
    /\ interface \in Interfaces
    /\ interval \in 1..MaxInterval
    /\ max_iterations \in {-1} \cup (1..MaxCount)
    /\ current_stats = ZeroStats
    /\ previous_stats = ZeroStats
    /\ iteration = 0
    /\ lines_since_header = 0
    /\ exit_status = -1
    /\ clock = 1
    /\ sleep_left = 0
    /\ out = [headers |-> 0, rows |-> 0, warnings |-> 0, last_row |-> NoRender,
              listed |-> <<>>, summary |-> <<>>]
    /\ hist = [attempts |-> 0,          \* read_net_stats calls made in the loop
               last_src |-> 0,          \* source met by the latest read
               last_found |-> FALSE,    \* what the latest read returned
               last_stats |-> ZeroStats, \* the *stats it left (initial_stats at startup)
               list_src |-> 0,          \* source met by the fopen of the label listing
               slept |-> FALSE,         \* sleep() was called since the latest loop read
               last_good |-> ZeroStats, \* snapshot of the latest successful loop read
               bridged |-> FALSE,       \* the latest row followed a failed read
               stop_in_sleep |-> FALSE, \* the flag was first set during a sleep
               stop_attempts |-> 0,     \* attempts made when that happened
               unslept |-> 0,           \* seconds left when a sleep was interrupted
               slept_after_stop |-> 0]  \* seconds slept with the flag already set

\* a loop condition that stops one iteration early
LoopCond_one_short(kr, max, it) == kr # 0 /\ (max < 0 \/ it + 1 < max)

\* a loop condition that allows one iteration more
LoopCond_inclusive(kr, max, it) == kr # 0 /\ (max < 0 \/ it <= max)

\* a loop condition that leaves keep_running out
LoopCond_count_only(kr, max, it) == max < 0 \/ it < max

\* keep_running && (max_iterations < 0 || iteration < max_iterations)
LoopCond(kr, max, it) == kr # 0 /\ (max < 0 \/ it < max)

\* a handler that flips the flag instead of clearing it
signal_handler_toggle ==
    /\ pc \notin {"done"}
    /\ keep_running' = 1 - keep_running
    /\ IF pc = "sleeping"
       THEN /\ pc' = "loop_test"
            /\ sleep_left' = 0
            /\ hist' = [hist EXCEPT !.unslept = sleep_left,
                                    !.stop_in_sleep = @ \/ keep_running = 1,
                                    !.stop_attempts = IF keep_running = 1
                                                      THEN hist.attempts ELSE @]
       ELSE UNCHANGED <<pc, sleep_left, hist>>
    /\ UNCHANGED <<interface, interval, max_iterations,
                   current_stats, previous_stats, iteration, lines_since_header,
                   exit_status, clock, out>>

\* signal_handler, run asynchronously on SIGINT/SIGTERM; a handler that
\* runs during sleep() makes it return early
signal_handler ==
    /\ pc \notin {"done"}
    /\ keep_running' = 0
    /\ IF pc = "sleeping"
       THEN /\ pc' = "loop_test"
            /\ sleep_left' = 0
            /\ hist' = [hist EXCEPT !.unslept = sleep_left,
                                    !.stop_in_sleep = @ \/ keep_running = 1,
                                    !.stop_attempts = IF keep_running = 1
                                                      THEN hist.attempts ELSE @]
       ELSE UNCHANGED <<pc, sleep_left, hist>>
    /\ UNCHANGED <<interface, interval, max_iterations,
                   current_stats, previous_stats, iteration, lines_since_header,
                   exit_status, clock, out>>

\* lines 394-441: the initial sample succeeds; initial_stats = {0} receives
\* it and is never read again
StartOkIn(srcs, clocks) ==
    /\ pc = "start"
    /\ \E src \in srcs, clock_ok \in clocks :
         \E r \in {read_net_stats(src, interface, ZeroStats, Now, clock_ok)} :
             /\ r.found
             /\ hist' = [hist EXCEPT !.last_src = src, !.last_found = TRUE,
                                     !.last_stats = r.stats]
    /\ out' = [out EXCEPT !.headers = @ + 1]
    /\ pc' = "loop_test"
    /\ UNCHANGED <<keep_running, interface, interval, max_iterations,
                   current_stats, previous_stats, iteration, lines_since_header,
                   exit_status, clock, sleep_left>>

\* the initial sample, over every source content and clock outcome
StartOk == StartOkIn(SourceIds, BOOLEAN)

\* lines 395-428: the initial sample fails; the labels of a second fopen
\* are listed and the process exits
StartFail ==
    /\ pc = "start"
    /\ \E src \in SourceIds, clock_ok \in BOOLEAN :
         \E r \in {read_net_stats(src, interface, ZeroStats, Now, clock_ok)} :
             /\ ~r.found
             /\ \E src2 \in SourceIds :
                  /\ out' = [out EXCEPT !.listed = IF Sources[src2].open
                                                   THEN ListLabels(Sources[src2].lines, 1)
                                                   ELSE <<>>]
                  /\ hist' = [hist EXCEPT !.last_src = src, !.last_found = FALSE,
                                          !.last_stats = r.stats,
                                          !.list_src = src2]
    /\ exit_status' = EXIT_FAILURE
    /\ pc' = "done"
    /\ UNCHANGED <<keep_running, interface, interval, max_iterations,
                   current_stats, previous_stats, iteration, lines_since_header,
                   clock, sleep_left>>

\* line 443: the while condition
LoopTest ==
    /\ pc = "loop_test"
    /\ pc' = IF LoopCond(keep_running, max_iterations, iteration) THEN "read" ELSE "summary"
    /\ UNCHANGED <<keep_running, interface, interval, max_iterations,
                   current_stats, previous_stats, iteration, lines_since_header,
                   exit_status, clock, sleep_left, out, hist>>

\* previous_stats.valid ? &previous_stats : NULL
PrevArg(previous) == IF previous.valid THEN PtrTo(previous) ELSE NullPtr

\* lines 451-454: elapsed
Elapsed(previous, current) ==
    IF previous.valid THEN timespec_diff(previous.timestamp, current.timestamp)
    ELSE ElapsedZero

\* lines 444-466: a successful read, the row, the rotation, the counters
ReadOkIn(srcs, clocks, limit) ==
    /\ pc = "read"
    /\ hist.attempts < limit
    /\ \E src \in srcs, clock_ok \in clocks :
         \E r \in {read_net_stats(src, interface, current_stats, Now, clock_ok)} :
             /\ r.found
             /\ current_stats' = r.stats
             /\ out' = [out EXCEPT
                          !.last_row = print_stats(r.stats, PrevArg(previous_stats),
                                                   Elapsed(previous_stats, r.stats)),
                          !.rows = @ + 1,
                          !.headers = IF lines_since_header + 1 >= HEADER_INTERVAL
                                      THEN @ + 1 ELSE @]
             /\ previous_stats' = r.stats
             /\ hist' = [hist EXCEPT !.attempts = @ + 1, !.last_src = src,
                                     !.last_found = TRUE, !.last_good = r.stats,
                                     !.last_stats = r.stats,
                                     !.bridged = hist.last_good.valid
                                                 /\ ~hist.last_found,
                                     !.slept = FALSE]
    /\ iteration' = iteration + 1
    /\ lines_since_header' = IF lines_since_header + 1 >= HEADER_INTERVAL
                             THEN 0 ELSE lines_since_header + 1
    /\ pc' = "post"
    /\ UNCHANGED <<keep_running, interface, interval, max_iterations,
                   exit_status, clock, sleep_left>>

\* a successful read of the loop, over every recurring content
ReadOk == ReadOkIn(PollSourceIds, BOOLEAN, MaxAttempts)

\* a loop that gives up at its first failed read
ReadFail_fatal ==
    /\ pc = "read"
    /\ hist.attempts < MaxAttempts
    /\ \E src \in PollSourceIds, clock_ok \in BOOLEAN :
         \E r \in {read_net_stats(src, interface, current_stats, Now, clock_ok)} :
             /\ ~r.found
             /\ current_stats' = r.stats
             /\ hist' = [hist EXCEPT !.attempts = @ + 1, !.last_src = src,
                                     !.last_found = FALSE, !.slept = FALSE,
                                     !.last_stats = r.stats]
    /\ out' = [out EXCEPT !.warnings = @ + 1]
    /\ exit_status' = EXIT_FAILURE
    /\ pc' = "done"
    /\ UNCHANGED <<keep_running, interface, interval, max_iterations,
                   previous_stats, iteration, lines_since_header,
                   clock, sleep_left>>

\* lines 444-446: a failed read and its warning
ReadFailIn(srcs, clocks, limit) ==
    /\ pc = "read"
    /\ hist.attempts < limit
    /\ \E src \in srcs, clock_ok \in clocks :
         \E r \in {read_net_stats(src, interface, current_stats, Now, clock_ok)} :
             /\ ~r.found
             /\ current_stats' = r.stats
             /\ hist' = [hist EXCEPT !.attempts = @ + 1, !.last_src = src,
                                     !.last_found = FALSE, !.slept = FALSE,
                                     !.last_stats = r.stats]
    /\ out' = [out EXCEPT !.warnings = @ + 1]
    /\ pc' = "fail_sleep"
    /\ UNCHANGED <<keep_running, interface, interval, max_iterations,
                   previous_stats, iteration, lines_since_header,
                   exit_status, clock, sleep_left>>

\* a failed read of the loop, over every recurring content
ReadFail == ReadFailIn(PollSourceIds, BOOLEAN, MaxAttempts)

\* a successful tick that always sleeps
PostCheck_always_sleep ==
    /\ pc = "post"
    /\ pc' = "ok_sleep"
    /\ UNCHANGED <<keep_running, interface, interval, max_iterations,
                   current_stats, previous_stats, iteration, lines_since_header,
                   exit_status, clock, sleep_left, out, hist>>

\* line 468: the condition guarding the sleep of a successful tick
PostCheck ==
    /\ pc = "post"
    /\ pc' = IF LoopCond(keep_running, max_iterations, iteration) THEN "ok_sleep" ELSE "loop_test"
    /\ UNCHANGED <<keep_running, interface, interval, max_iterations,
                   current_stats, previous_stats, iteration, lines_since_header,
                   exit_status, clock, sleep_left, out, hist>>

\* lines 447 and 469: sleep(interval) is entered
EnterSleep ==
    /\ pc \in {"fail_sleep", "ok_sleep"}
    /\ pc' = "sleeping"
    /\ sleep_left' = interval
    /\ hist' = [hist EXCEPT !.slept_after_stop = 0, !.slept = TRUE]
    /\ UNCHANGED <<keep_running, interface, interval, max_iterations,
                   current_stats, previous_stats, iteration, lines_since_header,
                   exit_status, clock, out>>

\* one second of an uninterrupted sleep(); it returns when none is left
SleepTick ==
    /\ pc = "sleeping"
    /\ clock' = clock + 1
    /\ sleep_left' = sleep_left - 1
    /\ pc' = IF sleep_left = 1 THEN "loop_test" ELSE "sleeping"
    /\ hist' = [hist EXCEPT !.slept_after_stop = IF keep_running = 0 THEN @ + 1 ELSE @]
    /\ UNCHANGED <<keep_running, interface, interval, max_iterations,
                   current_stats, previous_stats, iteration, lines_since_header,
                   exit_status, out>>

\* a summary that reports a cancelled run as a failure
Summary_signal_is_error ==
    /\ pc = "summary"
    /\ out' = [out EXCEPT !.summary = <<[stopped_by_signal |-> keep_running = 0,
                                         total_iterations |-> iteration]>>]
    /\ exit_status' = IF keep_running = 0 THEN EXIT_FAILURE ELSE EXIT_SUCCESS
    /\ pc' = "done"
    /\ UNCHANGED <<keep_running, interface, interval, max_iterations,
                   current_stats, previous_stats, iteration, lines_since_header,
                   clock, sleep_left, hist>>

\* lines 473-479: the final summary
Summary ==
    /\ pc = "summary"
    /\ out' = [out EXCEPT !.summary = <<[stopped_by_signal |-> keep_running = 0,
                                         total_iterations |-> iteration]>>]
    /\ exit_status' = EXIT_SUCCESS
    /\ pc' = "done"
    /\ UNCHANGED <<keep_running, interface, interval, max_iterations,
                   current_stats, previous_stats, iteration, lines_since_header,
                   clock, sleep_left, hist>>

MainStep ==
    \/ StartOk \/ StartFail \/ LoopTest \/ ReadOk \/ ReadFail
    \/ PostCheck \/ EnterSleep \/ SleepTick \/ Summary

Next ==
    \/ signal_handler
    \/ StartOk
    \/ StartFail
    \/ LoopTest
    \/ ReadOk
    \/ ReadFail
    \/ PostCheck
    \/ EnterSleep
    \/ SleepTick
    \/ Summary

Spec == Init /\ [][Next]_vars

\* the process is scheduled: main() keeps taking steps while it can
FairSpec == Spec /\ WF_vars(MainStep)

\* ------------------------------------------------------------------------
\* A long unbounded run: netstat_monitor eth0 -i 1, left alone, over a
\* source that has the eth0 row at some reads and lacks it at others
\* ------------------------------------------------------------------------
LongAttempts == 21

\* the contents met in the long run: lo and eth0 rows, or the lo row only
LongSources == {2, 4}

LongInit ==
    /\ Init
    /\ interface = eth0
    /\ interval = 1
    /\ max_iterations = -1

LongNext ==
    \/ StartOkIn({2}, {TRUE})
    \/ LoopTest
    \/ ReadOkIn(LongSources, {TRUE}, LongAttempts)
    \/ ReadFailIn(LongSources, {TRUE}, LongAttempts)
    \/ PostCheck
    \/ EnterSleep
    \/ SleepTick

LongRun == LongInit /\ [][LongNext]_vars

\* ------------------------------------------------------------------------
\* Properties
\* ------------------------------------------------------------------------
\* the four (current, previous, delta) triples of the row printed last, when
\* its deltas were computed
RenderedDeltas ==
    IF out.rows > 0 /\ Len(out.last_row.rx_delta) = 1
    THEN { [cur |-> out.last_row.current.rx_bytes,
            prev |-> out.last_row.previous.ref.rx_bytes,
            delta |-> out.last_row.rx_delta[1]],
           [cur |-> out.last_row.current.tx_bytes,
            prev |-> out.last_row.previous.ref.tx_bytes,
            delta |-> out.last_row.tx_delta[1]],
           [cur |-> out.last_row.current.rx_packets,
            prev |-> out.last_row.previous.ref.rx_packets,
            delta |-> out.last_row.rx_pkt_delta[1]],
           [cur |-> out.last_row.current.tx_packets,
            prev |-> out.last_row.previous.ref.tx_packets,
            delta |-> out.last_row.tx_pkt_delta[1]] }
    ELSE {}

\* C1: a run bounded by N iterations that no signal cancels ends after
\* exactly N calls of read_net_stats in the loop, failed calls included.
C1_ExactlyNAttempts ==
    (pc = "done" /\ exit_status = EXIT_SUCCESS /\ keep_running = 1 /\ max_iterations > 0)
        => hist.attempts = max_iterations

\* what holds from the moment the flag is set during a sleep: the sleep has
\* ended with time left, no second of sleep and no read follows
StopInSleepSafe ==
    hist.stop_in_sleep =>
        /\ pc \in {"loop_test", "summary", "done"}
        /\ hist.unslept >= 1
        /\ hist.slept_after_stop = 0
        /\ hist.attempts = hist.stop_attempts
        /\ sleep_left = 0

\* C2: when the flag is set while the loop sleeps, the loop reaches its end
\* (the summary, exit 0) without sleeping the rest of the interval and
\* without another read_net_stats call.
C2_StopDuringSleep ==
    /\ [](StopInSleepSafe)
    /\ (hist.stop_in_sleep ~> (pc = "done" /\ exit_status = EXIT_SUCCESS))

C2_Witness ==
    /\ hist.stop_in_sleep
    /\ pc = "done"
    /\ hist.unslept >= 1
    /\ hist.attempts >= 1

\* C3: a stop request raised at any point is observed without a full poll
\* interval elapsing: the process never sleeps a whole interval with the
\* flag already set.
C3_StopObservedPromptly ==
    keep_running = 0 => hist.slept_after_stop < interval

\* C4: a failed read in the loop goes on to the sleep and leaves
\* current_stats and previous_stats as they were; the next row's deltas are
\* taken against the snapshot of the latest earlier successful read.
C4_FailedReadKeepsSnapshots ==
    [][/\ (hist'.attempts = hist.attempts + 1 /\ ~hist'.last_found)
            => /\ pc' = "fail_sleep"
               /\ current_stats' = current_stats
               /\ previous_stats' = previous_stats
       /\ (hist'.attempts = hist.attempts + 1 /\ hist'.last_found /\ hist.last_good.valid)
            => out'.last_row.previous = PtrTo(hist.last_good)]_vars

C4_Witness ==
    /\ hist.bridged
    /\ pc = "post"
    /\ out.warnings >= 1
    /\ RenderedDeltas # {}

RateCells(row) ==
    {row.rx_rate_str, row.tx_rate_str, row.rx_pkt_rate_str, row.tx_pkt_rate_str}

DeltaCells(row) ==
    {row.rx_delta, row.tx_delta, row.rx_pkt_delta, row.tx_pkt_delta}

\* C5: the first row printed in a run shows the marker "-" for every rate
\* and computes no delta, whatever reads failed before it; every later row
\* has a valid previous snapshot, computed deltas and numeric rates.
C5_FirstRowUnavailable ==
    /\ out.rows = 1 =>
          /\ \A c \in RateCells(out.last_row) : c = Unavailable
          /\ \A d \in DeltaCells(out.last_row) : d = <<>>
    /\ out.rows > 1 =>
          /\ ~out.last_row.previous.null
          /\ out.last_row.previous.ref.valid
          /\ \A c \in RateCells(out.last_row) : c # Unavailable /\ Len(c.rate) = 1
          /\ \A d \in DeltaCells(out.last_row) : Len(d) = 1

C5_Witness ==
    /\ out.rows = 2
    /\ out.warnings >= 1
    /\ \A c \in RateCells(out.last_row) : c.text # "-"

\* the label left of the colon is the requested interface
LabelMatches(line, iface) ==
    /\ strchr(line, ":") # 0
    /\ TrimLabel(SubSeq(line, 1, strchr(line, ":") - 1)) = iface

\* the rows of source i that read_net_stats hands to parse_interface_line
\* when asked for the k-th interface: those up to the first accepted one
ScannedRows(i, k) ==
    {n \in 3..Len(Sources[i].lines) : \A m \in 3..(n - 1) : ~ParsedLine[i][m][k].ok}

\* C6: when the reader meets a row with the requested label and a malformed
\* body, the read fails there; no later row is returned.
C6_MalformedRowIsHardError ==
    (/\ hist.last_src # 0
     /\ \E n \in ScannedRows(hist.last_src, IfcId(interface)) :
            /\ LabelMatches(Sources[hist.last_src].lines[n], interface)
            /\ ~ParsedLine[hist.last_src][n][IfcId(interface)].ok)
        => ~hist.last_found

\* the whitespace-separated tokens of s from position i on, cur being the
\* token under construction
RECURSIVE SplitTokens(_, _, _)
SplitTokens(s, i, cur) ==
    IF i > Len(s) THEN (IF cur = <<>> THEN <<>> ELSE <<cur>>)
    ELSE IF IsDelim(s[i])
    THEN (IF cur = <<>> THEN <<>> ELSE <<cur>>) \o SplitTokens(s, i + 1, <<>>)
    ELSE SplitTokens(s, i + 1, Append(cur, s[i]))

AllDigits(tok) == Len(tok) > 0 /\ \A j \in 1..Len(tok) : IsDigit(tok[j])

\* the text after the first colon is exactly sixteen tokens, all unsigned
\* decimal numerals
SixteenUnsigned(line) ==
    /\ Len(SplitTokens(line, strchr(line, ":") + 1, <<>>)) = NTOKENS
    /\ \A t \in 1..Len(SplitTokens(line, strchr(line, ":") + 1, <<>>)) :
          AllDigits(SplitTokens(line, strchr(line, ":") + 1, <<>>)[t])

SixteenUnsignedLine ==
    [i \in SourceIds |-> [n \in 1..Len(Sources[i].lines) |->
        SixteenUnsigned(Sources[i].lines[n])]]

\* C7: a row with the requested label is accepted by parse_interface_line
\* if and only if the text after the colon is exactly 16 unsigned decimal
\* tokens (15 fail, 17 fail, 16 succeed).
C7_ExactlySixteenTokens ==
    hist.last_src # 0 =>
        \A n \in ScannedRows(hist.last_src, IfcId(interface)) :
            LabelMatches(Sources[hist.last_src].lines[n], interface)
                => (ParsedLine[hist.last_src][n][IfcId(interface)].ok
                        <=> SixteenUnsignedLine[hist.last_src][n])

\* previous - current exceeds 2^32
FarApart(c) == U64Less(WRAP32, U64Sub(c.prev, c.cur))

\* C8 as stated: for current < previous the delta is the integer
\* (2^32 - previous) + current, that is delta + previous = 2^32 + current
\* as integers (sum and carry both).
C8_DeltaIsIntegerWrap32 ==
    \A c \in RenderedDeltas :
        U64Less(c.cur, c.prev) => U64AddC(c.delta, c.prev) = U64AddC(WRAP32, c.cur)

\* C8 amended: for current < previous the delta is (2^32 - previous) +
\* current modulo 2^64: that integer itself when previous - current <= 2^32,
\* and 2^64 more than it otherwise.
C8_DeltaIsWrap32Mod64 ==
    \A c \in RenderedDeltas :
        U64Less(c.cur, c.prev) =>
            /\ U64AddC(c.delta, c.prev).val = U64AddC(WRAP32, c.cur).val
            /\ U64AddC(c.delta, c.prev).carry =
                   U64AddC(WRAP32, c.cur).carry + (IF FarApart(c) THEN 1 ELSE 0)

C8_Witness ==
    /\ \E c \in RenderedDeltas :
          /\ c.prev = strtoull(T4294967290).value
          /\ c.cur = strtoull(T10).value
          /\ c.delta = <<16, 0, 0, 0>>
    /\ \E c \in RenderedDeltas : U64Less(c.cur, c.prev) /\ FarApart(c)

\* C9: for current >= previous the delta is current - previous, for each of
\* the four counters of a printed row: delta + previous = current with
\* nothing carried.
C9_DeltaWhenNotDecreasing ==
    \A c \in RenderedDeltas :
        U64Geq(c.cur, c.prev) => U64AddC(c.delta, c.prev) = [val |-> c.cur, carry |-> 0]

C9_Witness ==
    /\ RenderedDeltas # {}
    /\ \A c \in RenderedDeltas : U64Less(c.prev, c.cur)
    /\ \E c \in RenderedDeltas : U64Less(WRAP32, c.delta)

\* C10: a counter source that cannot be opened is fatal wherever it is met:
\* the process ends with a failure status and reads no more.
C10_UnopenableIsFatal ==
    (hist.last_src # 0 /\ ~Sources[hist.last_src].open)
        => (pc = "done" /\ exit_status = EXIT_FAILURE)

\* the rows of source i that have a colon
LabelledRows(i) ==
    {n \in 3..Len(Sources[i].lines) : strchr(Sources[i].lines[n], ":") # 0}

\* the label of row n of source i
LabelOf(i, n) ==
    TrimLabel(SubSeq(Sources[i].lines[n], 1, strchr(Sources[i].lines[n], ":") - 1))

\* C11: an initial sample that does not find the interface ends the process
\* with a failure status after listing the labels of the source: no loop
\* read, no row, no summary; a failed read inside the loop never ends the
\* process.
C11_NotFoundFatalOnlyAtStartup ==
    /\ exit_status = EXIT_FAILURE =>
          /\ pc = "done"
          /\ hist.attempts = 0 /\ ~hist.last_found
          /\ out.rows = 0 /\ out.headers = 0 /\ out.summary = <<>>
          /\ Len(out.listed) = Cardinality(LabelledRows(hist.list_src))
          /\ \A n \in LabelledRows(hist.list_src) :
                \E j \in 1..Len(out.listed) : out.listed[j] = LabelOf(hist.list_src, n)
    /\ hist.attempts > 0 => exit_status # EXIT_FAILURE
    /\ pc = "fail_sleep" => exit_status = -1

C11_Witness ==
    /\ pc = "done"
    /\ exit_status = EXIT_FAILURE
    /\ interface = wlan0
    /\ hist.last_src = 2
    /\ out.listed = <<lo, eth0>>

\* the startup sample succeeded: print_header() at line 441 was reached
Started == out.headers >= 1

\* C12: once the startup sample has succeeded, the run can only end with the
\* final summary (the iteration count, and the stopped-by-signal line exactly
\* when the flag is set) and exit status 0, however it was stopped;
\* cancellation never gives a failure status.
C12_StopEndsWithSummary ==
    Started =>
        /\ exit_status # EXIT_FAILURE
        /\ pc = "done" =>
              /\ exit_status = EXIT_SUCCESS
              /\ Len(out.summary) = 1
              /\ out.summary[1].total_iterations = iteration
              /\ out.summary[1].stopped_by_signal = (keep_running = 0)
        /\ pc # "done" => exit_status = -1 /\ out.summary = <<>>

C12_Witness ==
    /\ pc = "done"
    /\ Started
    /\ keep_running = 0
    /\ hist.attempts = 0
    /\ out.summary = <<[stopped_by_signal |-> TRUE, total_iterations |-> 0]>>
    /\ exit_status = EXIT_SUCCESS

\* C13: the loop is left only with the flag set or with the maximum
\* iteration count reached; a run without -n never leaves it while the flag
\* is unset, whatever reads succeed or fail.
C13_StopsOnlyOnFlagOrCount ==
    (Started /\ pc \in {"summary", "done"}) =>
        \/ keep_running = 0
        \/ max_iterations > 0 /\ iteration >= max_iterations

C13_Witness ==
    /\ pc = "done"
    /\ Started
    /\ keep_running = 1
    /\ max_iterations = 2
    /\ iteration = 2
    /\ out.warnings >= 1

\* what main() owns: nothing of it is touched when the flag is written
MainData ==
    <<interface, interval, max_iterations, current_stats, previous_stats,
      iteration, lines_since_header, exit_status, out>>

\* C14: the flag starts at 1 (running); its only change is 1 -> 0, made by
\* the signal handler alone, which writes nothing else of the program's
\* state; no step of main() changes it, so it is never set back to 1.
C14_FlagMonotonic ==
    /\ keep_running = 1
    /\ [][/\ keep_running = 0 => keep_running' = 0
          /\ keep_running' # keep_running =>
                /\ keep_running = 1 /\ keep_running' = 0
                /\ UNCHANGED MainData
                /\ pc' = pc \/ (pc = "sleeping" /\ pc' = "loop_test")
          /\ (MainData' # MainData \/ clock' # clock) => keep_running' = keep_running]_vars

C14_Witness ==
    /\ keep_running = 0
    /\ pc = "post"
    /\ out.rows = 2
    /\ hist.stop_in_sleep = FALSE

\* ------------------------------------------------------------------------
\* Row lookup (read_net_stats with parse_interface_line)
\* ------------------------------------------------------------------------
DigitChar == <<"0", "1", "2", "3", "4", "5", "6", "7", "8", "9">>

\* quotient and remainder of the limb value a by ten, from the high limb down
DivMod10(a) ==
    LET c4 == a[4]
        c3 == (c4 % 10) * LimbBase + a[3]
        c2 == (c3 % 10) * LimbBase + a[2]
        c1 == (c2 % 10) * LimbBase + a[1]
    IN  [quot |-> <<c1 \div 10, c2 \div 10, c3 \div 10, c4 \div 10>>, rem |-> c1 % 10]

\* the decimal numeral of the limb value a, without leading zeros
RECURSIVE Decimal(_)
DecimalOf(dm) ==
    IF dm.quot = U64Zero THEN <<DigitChar[dm.rem + 1]>>
    ELSE Append(Decimal(dm.quot), DigitChar[dm.rem + 1])

Decimal(a) == DecimalOf(DivMod10(a))

\* a digit string without its leading zeros (one digit is always kept)
RECURSIVE StripZeros(_)
StripZeros(d) == IF Len(d) > 1 /\ d[1] = "0" THEN StripZeros(Tail(d)) ELSE d

\* the digits of a token after its optional sign
Unsigned(tok) == IF Len(tok) > 0 /\ tok[1] \in {"-", "+"} THEN Tail(tok) ELSE tok

\* for digit strings of equal length: a <= b
RECURSIVE DigitsLeq(_, _)
DigitsLeq(a, b) ==
    IF a = <<>> THEN TRUE
    ELSE IF a[1] # b[1] THEN DigitVal[a[1]] < DigitVal[b[1]]
    ELSE DigitsLeq(Tail(a), Tail(b))

\* the digit string d denotes a number below 2^64
Fits64(d) ==
    \/ Len(StripZeros(d)) < Len(TMax)
    \/ Len(StripZeros(d)) = Len(TMax) /\ DigitsLeq(StripZeros(d), TMax)

\* a token the row parser takes for a number: an optional sign, then one or
\* more decimal digits and nothing else, the digits denoting less than 2^64
Numeral(tok) == AllDigits(Unsigned(tok)) /\ Fits64(Unsigned(tok))

\* a numeral as its sign and its digits without leading zeros
Canonical(tok) == [minus |-> tok[1] = "-", digits |-> StripZeros(Unsigned(tok))]

\* the limb value v is what the numeral num denotes modulo 2^64
Denotes(num, v) ==
    IF num.minus THEN Decimal(U64Sub(U64Zero, v)) = num.digits
    ELSE Decimal(v) = num.digits

BodyTokens(line) == SplitTokens(line, strchr(line, ":") + 1, <<>>)

\* the text after the colon starts with sixteen numerals
AcceptedBody(line) ==
    /\ Len(BodyTokens(line)) >= NTOKENS
    /\ \A t \in 1..NTOKENS : Numeral(BodyTokens(line)[t])

\* the numerals among the first twelve tokens after the colon, per row
RowNumerals ==
    [i \in SourceIds |-> [n \in 1..Len(Sources[i].lines) |->
        [t \in {u \in 1..12 : /\ strchr(Sources[i].lines[n], ":") # 0
                              /\ u <= Len(BodyTokens(Sources[i].lines[n]))
                              /\ Numeral(BodyTokens(Sources[i].lines[n])[u])} |->
            Canonical(BodyTokens(Sources[i].lines[n])[t])]]]

\* the eight counters of stats are tokens 0,1,2,3 and 8,9,10,11 of row nums
CountersFrom(nums, stats) ==
    /\ {1, 2, 3, 4, 9, 10, 11, 12} \subseteq DOMAIN nums
    /\ Denotes(nums[1], stats.rx_bytes)
    /\ Denotes(nums[2], stats.rx_packets)
    /\ Denotes(nums[3], stats.rx_errors)
    /\ Denotes(nums[4], stats.rx_drops)
    /\ Denotes(nums[9], stats.tx_bytes)
    /\ Denotes(nums[10], stats.tx_packets)
    /\ Denotes(nums[11], stats.tx_errors)
    /\ Denotes(nums[12], stats.tx_drops)

\* per source and requested interface: the rows after the two header lines
\* whose trimmed label is the interface, and those of them with a body of
\* sixteen numerals
LabelRows ==
    [i \in SourceIds |-> [k \in 1..Len(InterfaceList) |->
        {n \in 3..Len(Sources[i].lines) :
            LabelMatches(Sources[i].lines[n], InterfaceList[k])}]]

GoodRows ==
    [i \in SourceIds |-> [k \in 1..Len(InterfaceList) |->
        {n \in LabelRows[i][k] : AcceptedBody(Sources[i].lines[n])}]]

First(S) == CHOOSE n \in S : \A m \in S : n <= m

\* C15 as stated: the read returns a valid snapshot if and only if some row
\* after the first two lines has the requested label, and the snapshot's
\* counters are tokens 0,1,2,3 and 8,9,10,11 of that row.
C15_FoundIffLabelMatches ==
    hist.last_src # 0 =>
        /\ hist.last_found <=> LabelRows[hist.last_src][IfcId(interface)] # {}
        /\ hist.last_found =>
              /\ hist.last_stats.valid
              /\ CountersFrom(RowNumerals[hist.last_src][
                                 First(LabelRows[hist.last_src][IfcId(interface)])],
                              hist.last_stats)

\* C15 (amended): the read skips the first two lines whatever they hold and
\* returns a valid snapshot if and only if some later row has the requested
\* label exactly and a body that starts with sixteen numerals; the
\* snapshot's counters are tokens 0,1,2,3 and 8,9,10,11 of the first such
\* row and its interface is the requested name.
C15_FoundIffRowAccepted ==
    hist.last_src # 0 =>
        /\ hist.last_found <=> GoodRows[hist.last_src][IfcId(interface)] # {}
        /\ hist.last_found =>
              /\ hist.last_stats.valid
              /\ hist.last_stats.interface = interface
              /\ CountersFrom(RowNumerals[hist.last_src][
                                 First(GoodRows[hist.last_src][IfcId(interface)])],
                              hist.last_stats)

\* the read met the overflowing eth0 row and returned the next eth0 row,
\* whose first counter is 2^64 - 1
C15_Witness ==
    /\ hist.last_src = 9
    /\ interface = eth0
    /\ hist.last_found
    /\ hist.last_stats.rx_bytes = U64Max
    /\ hist.last_stats.rx_packets = <<7, 0, 0, 0>>

\* C16: a row whose label is not the requested one is passed over whatever
\* its body holds: when the first row with the requested label is well
\* formed, the read succeeds and returns that row, however many rows with
\* other labels, malformed ones included, come before it.
C16_OtherLabelsNeverFail ==
    hist.last_src # 0 =>
        \A n \in GoodRows[hist.last_src][IfcId(interface)] :
            (\A m \in 3..(n - 1) : m \notin LabelRows[hist.last_src][IfcId(interface)])
                => /\ hist.last_found
                   /\ hist.last_stats.valid
                   /\ CountersFrom(RowNumerals[hist.last_src][n], hist.last_stats)

\* a read inside the loop passed the malformed "lo" row and returned the
\* eth0 row after it
C16_Witness ==
    /\ hist.attempts >= 1
    /\ hist.last_src = 3
    /\ interface = eth0
    /\ ~AcceptedBody(Sources[3].lines[3])
    /\ ~LabelMatches(Sources[3].lines[3], eth0)
    /\ hist.last_found
    /\ current_stats.rx_bytes = <<3048, 0, 0, 0>>

\* C17: whenever a row is rendered from a valid previous and a valid current
\* snapshot, the current snapshot's timestamp is not before the previous
\* one's and the elapsed time handed to print_stats is not negative, also
\* when clock_gettime failed for a sample.
C17_ElapsedNeverNegative ==
    (/\ out.rows >= 1
     /\ HasPrevious(out.last_row.previous)
     /\ out.last_row.current.valid)
        => /\ out.last_row.current.timestamp.tv_sec
                 >= out.last_row.previous.ref.timestamp.tv_sec
           /\ out.last_row.elapsed.sec >= 0

\* C18: the header is re-emitted after every HEADER_INTERVAL ticks, a tick
\* being one pass of the loop whether its read succeeded or failed: once a
\* tick is over, the headers printed are the initial one and one for every
\* HEADER_INTERVAL ticks made.
C18_HeaderEveryTwentyTicks ==
    (pc = "loop_test" /\ Started)
        => out.headers = 1 + (hist.attempts \div HEADER_INTERVAL)

\* C19: the iteration counter is the number of rows rendered so far (a
\* failed read adds a warning and no row), it never exceeds a positive
\* maximum, and the summary prints that number.
C19_IterationCountsRows ==
    /\ iteration = out.rows
    /\ out.rows + out.warnings = hist.attempts
    /\ max_iterations > 0 => iteration <= max_iterations
    /\ out.summary # <<>> => out.summary[1].total_iterations = out.rows

\* a bounded run of two rows ended after one failed read on the way
C19_Witness ==
    /\ pc = "done"
    /\ max_iterations = 2
    /\ out.rows = 2
    /\ out.warnings = 1
    /\ out.summary = <<[stopped_by_signal |-> FALSE, total_iterations |-> 2]>>

\* the loop would go on: the flag is up and the count is not used up
WouldContinue == keep_running # 0 /\ (max_iterations < 0 \/ iteration < max_iterations)

\* C20: the check after a rendered row leads to the sleep if and only if
\* the loop would go on; otherwise control returns to the loop test with
\* no sleep since the read, the test fails and the loop is over. The sleep
\* of a successful tick is never entered with the count used up.
C20_SleepOnlyIfContinuing ==
    /\ [](pc = "ok_sleep" => (max_iterations < 0 \/ iteration < max_iterations))
    /\ []((pc = "loop_test" /\ hist.attempts > 0 /\ hist.last_found /\ ~hist.slept)
              => ~WouldContinue)
    /\ [][ /\ (pc = "post" /\ pc' # "post")
                 => pc' = IF WouldContinue THEN "ok_sleep" ELSE "loop_test"
           /\ (pc = "loop_test" /\ hist.attempts > 0 /\ hist.last_found /\ ~hist.slept
                 /\ pc' # "loop_test")
                 => pc' = "summary" ]_vars

\* the only row of a one-row run was rendered and the loop ended with no
\* sleep after it
C20_Witness ==
    /\ pc = "summary"
    /\ max_iterations = 1
    /\ iteration = 1
    /\ keep_running = 1
    /\ hist.last_found
    /\ ~hist.slept
    /\ hist.attempts >= 1

====
